---- MODULE Spec2Model ----
(***************************************************************************)
(* Dual-ledger model of the blue-carbon registry backend.                  *)
(*                                                                         *)
(* One project document in the document store (models/Project.js), the     *)
(* CarbonCreditRegistry contract (contracts/CarbonCreditRegistry.sol) and  *)
(* the request handlers of the blockchain controller and the verification  *)
(* controller.  A handler is an async function: it advances from one await *)
(* to the next in one atomic step, and handlers of concurrent requests     *)
(* interleave at their awaits.  A handler works on the document it loaded  *)
(* with findOne/findById and save() writes the paths it modified.          *)
(*                                                                         *)
(* Fractional quantities (request amounts, CO2 estimates) are counted in   *)
(* halves, so that Math.floor is a real conversion: the value v stands for *)
(* v/2.  Credits on the document and on chain are whole numbers.           *)
(*                                                                         *)
(* The document is modelled with the fields the controllers read and       *)
(* write; schema validation of the status strings is not modelled.  The    *)
(* verifier reward is taken to be unset (metadata.verifierRewardAmount     *)
(* absent), so approveProject mints no reward.                             *)
(***************************************************************************)
EXTENDS Integers, Sequences, FiniteSets, TLC

\* the project's document, the registry contract, the request handlers and
\* the number of requests received; the number of Verification records of
\* the project by status (no handler reads them: they are counted in
\* ApprovalSpec only)
VARIABLES db, chain, hs, started, verifications

\* components studied on their own: the registry contract's statistics, the
\* ERC-20-integrated registry, an Evidence record and its verification, the
\* TransactionMonitor and a ProgressController session
VARIABLES registry, erc20, evidence, monitor, session

main == <<db, chain, hs, started, verifications>>

side == <<registry, erc20, evidence, monitor, session>>

vars == <<main, side>>

\* a component that is not running
Off == "off"

(* ---------------------------- bounds ----------------------------------- *)

\* credits claimed for the project at submission (Carbon_Credits_Issued)
MaxCredits == 2

\* number of requests ever received
MaxRequests == 4

\* the request handlers that may be in flight at the same time
Handlers == {1, 2}

(* ---------------------------- inputs ----------------------------------- *)

\* amount of a retire request, in halves: 0, 0.5, 1, ..., full, full + 0.5
RetireAmounts == 0 .. (2 * MaxCredits + 1)

Reasons == {"", "offset"}

\* the authenticated user who sends a retire request: the project's owner
\* or somebody else
Callers == {"owner", "other"}

\* co2Estimate of an approve request, in halves; 0 is "absent"
Co2Estimates == {0, 2 * MaxCredits - 1, 2 * MaxCredits}

\* status of an update-status request; "" is "absent"
StatusInputs == {"", "Pending"}

NoToken == -1

\* Math.floor on a value counted in halves
Floor(v) == v \div 2

(* ------------------- CarbonCreditRegistry contract --------------------- *)

\* tokens[t + 1] is projects[t]; mine is TRUE for the tokens whose
\* projectId is the modelled project's.  registered and retired are the
\* amounts of the token's ProjectRegistered and CreditsRetired events.
Token(mine, credits) ==
    [mine |-> mine, carbonCredits |-> credits, isRetired |-> FALSE,
     status |-> "Verified", registered |-> credits, retired |-> 0]

projectExists(c, tokenId) == tokenId >= 0 /\ tokenId < c.counter

\* projectExistsById for the modelled project
projectExistsById(c) == c.projectToToken # 0

\* the requires of registerProject for the modelled project
Contract_canRegister(c, credits) ==
    /\ c.projectToToken = 0
    /\ credits > 0

Contract_registerProject(c, credits) ==
    [counter |-> c.counter + 1,
     projectToToken |-> c.counter,
     tokens |-> Append(c.tokens, Token(TRUE, credits))]

\* the modifiers and requires of retireCredits; amount is the integer the
\* service passes
Contract_canRetire(c, tokenId, amount, reason) ==
    /\ projectExists(c, tokenId)
    /\ ~c.tokens[tokenId + 1].isRetired
    /\ amount > 0
    /\ amount <= c.tokens[tokenId + 1].carbonCredits
    /\ reason # ""

\* retireCredits as it would be if a token stayed open while credits are left
Contract_retireCredits_partial(c, tokenId, amount) ==
    [c EXCEPT !.tokens[tokenId + 1] =
        [@ EXCEPT !.carbonCredits = @ - amount,
                  !.isRetired = (c.tokens[tokenId + 1].carbonCredits = amount),
                  !.status = IF c.tokens[tokenId + 1].carbonCredits = amount
                             THEN "Retired" ELSE @,
                  !.retired = @ + amount]]

Contract_retireCredits(c, tokenId, amount) ==
    [c EXCEPT !.tokens[tokenId + 1] =
        [@ EXCEPT !.carbonCredits = @ - amount,
                  !.isRetired = TRUE,
                  !.status = "Retired",
                  !.retired = amount]]

Contract_canUpdateStatus(c, tokenId, newStatus) ==
    /\ projectExists(c, tokenId)
    /\ newStatus # ""

Contract_updateProjectStatus(c, tokenId, newStatus) ==
    [c EXCEPT !.tokens[tokenId + 1].status = newStatus]

(* --------------------------- the document ------------------------------ *)

\* projectSchema.methods.isBlockchainRegistered
isBlockchainRegistered(d) == d.isRegistered /\ d.tokenId # NoToken

isPending(d) == d.status = "Pending" \/ d.status = "PENDING"

(* ---------------------------- handlers --------------------------------- *)

\* new Verification({projectId, status, ...}).save()
Verification_save(status) ==
    verifications' = IF verifications.counted
                     THEN [verifications EXCEPT ![status] = @ + 1]
                     ELSE verifications

Idle ==
    [kind |-> "none", pc |-> "idle", tok |-> NoToken, amt |-> 0, seq |-> 0,
     st |-> "", ret |-> FALSE, out |-> "", ov |-> FALSE]

\* the response is sent: the handler keeps its kind and outcome until the
\* slot is taken again
Done(kind, out, ov) == [Idle EXCEPT !.kind = kind, !.pc = "done", !.out = out, !.ov = ov]

Free(h) == hs[h].pc = "idle" /\ started < MaxRequests

InFlight(h) == hs[h].pc \notin {"idle", "done"}

(* ----------- blockchainController.registerProject (POST /register) ----- *)

registerProject_find(h) ==
    /\ Free(h)
    /\ started' = started + 1
    /\ IF isBlockchainRegistered(db)
       THEN hs' = [hs EXCEPT ![h] = Done("register", "refused", FALSE)]
       ELSE hs' = [hs EXCEPT ![h] = [Idle EXCEPT !.kind = "register", !.pc = "ledger",
                                                  !.amt = db.credits]]
    /\ UNCHANGED <<db, chain, verifications, side>>

\* blockchainService.registerProject: the call reverts ("failed"), is mined
\* and answered, is mined and the answer is lost ("lost": timeout,
\* connection loss), or never reaches the chain ("down")
registerProject_ledger(h) ==
    /\ hs[h].kind = "register" /\ hs[h].pc = "ledger"
    /\ \E fault \in {"none", "lost", "down"} :
         IF fault # "down" /\ Contract_canRegister(chain, hs[h].amt)
         THEN /\ chain' = Contract_registerProject(chain, hs[h].amt)
              /\ IF fault = "none"
                 THEN hs' = [hs EXCEPT ![h].pc = "save", ![h].tok = chain.counter]
                 ELSE hs' = [hs EXCEPT ![h] = Done("register", "lost", FALSE)]
         ELSE /\ chain' = chain
              /\ hs' = [hs EXCEPT ![h] = Done("register",
                                   IF fault = "down" THEN "down" ELSE "failed", FALSE)]
    /\ UNCHANGED <<db, started, verifications, side>>

registerProject_save(h) ==
    /\ hs[h].kind = "register" /\ hs[h].pc = "save"
    /\ db' = [db EXCEPT !.tokenId = hs[h].tok, !.isRegistered = TRUE,
                        !.isRetired = FALSE, !.regError = FALSE]
    /\ hs' = [hs EXCEPT ![h] = Done("register", "ok", FALSE)]
    /\ UNCHANGED <<chain, started, verifications, side>>

(* ----------- blockchainController.retireCredits (POST /retire) --------- *)

RECURSIVE SumRetired(_)
SumRetired(ts) ==
    IF ts = <<>> THEN 0
    ELSE (IF Head(ts).mine THEN Head(ts).retired ELSE 0) + SumRetired(Tail(ts))

\* the credits of the project retired on chain: the sum of the amounts of
\* its CreditsRetired events
creditsRetired == SumRetired(chain.tokens)

\* another retire request is in flight and the two amounts together exceed
\* what is left of the claimed credits
Overlaps(h, amount) ==
    \E g \in Handlers \ {h} :
        /\ hs[g].kind = "retire" /\ InFlight(g)
        /\ amount + hs[g].amt > 2 * (db.credits - creditsRetired)

\* the request of an authenticated caller; req.user is not read
retireCredits_from(h, caller) ==
    /\ Free(h)
    /\ started' = started + 1
    /\ \E amount \in RetireAmounts, reason \in Reasons :
         IF \/ amount = 0 \/ reason = ""
            \/ ~isBlockchainRegistered(db)
            \/ db.isRetired
            \/ amount > 2 * db.credits
         THEN hs' = [hs EXCEPT ![h] = Done("retire", "refused", FALSE)]
         ELSE hs' = [g \in Handlers |->
                       IF g = h
                       THEN [Idle EXCEPT !.kind = "retire", !.pc = "ledger",
                                         !.tok = db.tokenId, !.amt = amount,
                                         !.st = reason, !.ov = Overlaps(h, amount)]
                       ELSE IF hs[g].kind = "retire" /\ InFlight(g)
                            THEN [hs[g] EXCEPT !.ov = @ \/ Overlaps(h, amount)]
                            ELSE hs[g]]
    /\ UNCHANGED <<db, chain, verifications, side>>

retireCredits_find(h) ==
    /\ Free(h)
    /\ \E caller \in Callers : retireCredits_from(h, caller)

\* blockchainService.retireCredits passes Math.floor(amount) to the contract
retireCredits_ledger(h) ==
    /\ hs[h].kind = "retire" /\ hs[h].pc = "ledger"
    /\ \E fault \in {"none", "lost", "down"} :
         IF fault # "down" /\ Contract_canRetire(chain, hs[h].tok, Floor(hs[h].amt), hs[h].st)
         THEN /\ chain' = Contract_retireCredits(chain, hs[h].tok, Floor(hs[h].amt))
              /\ IF fault = "none"
                 THEN hs' = [hs EXCEPT ![h].pc = "save"]
                 ELSE hs' = [hs EXCEPT ![h] = Done("retire", "lost", hs[h].ov)]
         ELSE /\ chain' = chain
              /\ hs' = [hs EXCEPT ![h] = Done("retire",
                                   IF fault = "down" THEN "down" ELSE "failed", hs[h].ov)]
    /\ UNCHANGED <<db, started, verifications, side>>

retireCredits_save(h) ==
    /\ hs[h].kind = "retire" /\ hs[h].pc = "save"
    /\ db' = [db EXCEPT !.isRetired = TRUE, !.status = "Retired"]
    /\ hs' = [hs EXCEPT ![h] = Done("retire", "ok", hs[h].ov)]
    /\ UNCHANGED <<chain, started, verifications, side>>

(* ------ blockchainService.registerProject as the verification ---------- *)
(* ------ controller calls it --------------------------------------------- *)

\* The service throws before sending when the floored estimate is not
\* positive.  Otherwise as for registerProject_ledger; the caller catches
\* every error and goes on to record it.
Service_registerProject(h) ==
    \E fault \in {"none", "lost", "down"} :
        IF hs[h].amt > 0 /\ fault # "down" /\ Contract_canRegister(chain, hs[h].amt)
        THEN /\ chain' = Contract_registerProject(chain, hs[h].amt)
             /\ IF fault = "none"
                THEN hs' = [hs EXCEPT ![h].pc = "save", ![h].tok = chain.counter]
                ELSE hs' = [hs EXCEPT ![h].pc = "saveError", ![h].out = "lost"]
        ELSE /\ chain' = chain
             /\ hs' = [hs EXCEPT ![h].pc = "saveError",
                                 ![h].out = IF fault = "down" THEN "down" ELSE "failed"]

(* ----------- verificationController.approveProject --------------------- *)

\* another approve or reject request has loaded the document and has not
\* saved yet: the two decisions are taken on the same read
SameRead(h) ==
    \E g \in Handlers \ {h} : hs[g].kind \in {"approve", "reject"} /\ InFlight(g)

\* h starts as rec; a decision in flight learns that it shares its read
Decide(h, rec) ==
    [g \in Handlers |->
        IF g = h THEN [rec EXCEPT !.ov = SameRead(h)]
        ELSE IF hs[g].kind \in {"approve", "reject"} /\ InFlight(g)
             THEN [hs[g] EXCEPT !.ov = TRUE]
             ELSE hs[g]]

approveProject_find(h) ==
    /\ Free(h)
    /\ started' = started + 1
    /\ \E co2Estimate \in Co2Estimates :
         IF ~isPending(db)
         THEN hs' = [hs EXCEPT ![h] = Done("approve", "refused", FALSE)]
         ELSE hs' = Decide(h,
                 [Idle EXCEPT !.kind = "approve", !.pc = "verification",
                              !.st = IF db.status = "PENDING" THEN "APPROVED" ELSE "Approved",
                              !.seq = co2Estimate, !.amt = Floor(co2Estimate)])
    /\ UNCHANGED <<db, chain, verifications, side>>

\* the Verification record is saved, then the owner address is checked
approveProject_verification(h) ==
    /\ hs[h].kind = "approve" /\ hs[h].pc = "verification"
    /\ IF db.hasOwner
       THEN hs' = [hs EXCEPT ![h].pc = "ledger"]
       ELSE hs' = [hs EXCEPT ![h] = Done("approve", "refused", FALSE)]
    /\ Verification_save("Approved")
    /\ UNCHANGED <<db, chain, started, side>>

approveProject_ledger(h) ==
    /\ hs[h].kind = "approve" /\ hs[h].pc = "ledger"
    /\ Service_registerProject(h)
    /\ UNCHANGED <<db, started, verifications, side>>

approveProject_save(h) ==
    /\ hs[h].kind = "approve" /\ hs[h].pc = "save"
    /\ db' = [db EXCEPT !.status = hs[h].st, !.seq = hs[h].seq, !.credits = hs[h].amt,
                        !.tokenId = hs[h].tok, !.isRegistered = TRUE,
                        !.isRetired = FALSE, !.regError = FALSE]
    /\ hs' = [hs EXCEPT ![h] = Done("approve", "ok", hs[h].ov)]
    /\ UNCHANGED <<chain, started, verifications, side>>

\* the catch as it would be if a failed registration undid the approval
approveProject_saveError_undo(h) ==
    /\ hs[h].kind = "approve" /\ hs[h].pc = "saveError"
    /\ db' = [db EXCEPT !.tokenId = NoToken, !.isRegistered = FALSE,
                        !.isRetired = FALSE, !.regError = TRUE]
    /\ hs' = [hs EXCEPT ![h] = Done("approve", hs[h].out, hs[h].ov)]
    /\ UNCHANGED <<chain, started, verifications, side>>

\* catch (blockchainError)
approveProject_saveError(h) ==
    /\ hs[h].kind = "approve" /\ hs[h].pc = "saveError"
    /\ db' = [db EXCEPT !.status = "APPROVED", !.seq = hs[h].seq, !.credits = hs[h].amt,
                        !.tokenId = NoToken, !.isRegistered = FALSE,
                        !.isRetired = FALSE, !.regError = TRUE]
    /\ hs' = [hs EXCEPT ![h] = Done("approve", hs[h].out, hs[h].ov)]
    /\ UNCHANGED <<chain, started, verifications, side>>

(* ----------- verificationController.rejectProject ---------------------- *)

rejectProject_find(h) ==
    /\ Free(h)
    /\ started' = started + 1
    /\ IF db.status # "Pending"
       THEN hs' = [hs EXCEPT ![h] = Done("reject", "refused", FALSE)]
       ELSE hs' = Decide(h, [Idle EXCEPT !.kind = "reject", !.pc = "verification"])
    /\ UNCHANGED <<db, chain, verifications, side>>

rejectProject_verification(h) ==
    /\ hs[h].kind = "reject" /\ hs[h].pc = "verification"
    /\ hs' = [hs EXCEPT ![h].pc = "save"]
    /\ Verification_save("Rejected")
    /\ UNCHANGED <<db, chain, started, side>>

rejectProject_save(h) ==
    /\ hs[h].kind = "reject" /\ hs[h].pc = "save"
    /\ db' = [db EXCEPT !.status = "Rejected"]
    /\ hs' = [hs EXCEPT ![h] = Done("reject", "ok", hs[h].ov)]
    /\ UNCHANGED <<chain, started, verifications, side>>

(* ----------- verificationController.retryBlockchainRegistration -------- *)

retryBlockchainRegistration_find(h) ==
    /\ Free(h)
    /\ started' = started + 1
    /\ IF \/ db.status \notin {"APPROVED", "Approved"}
          \/ db.isRegistered
          \/ ~db.hasOwner
       THEN hs' = [hs EXCEPT ![h] = Done("retry", "refused", FALSE)]
       ELSE hs' = [hs EXCEPT ![h] =
               [Idle EXCEPT !.kind = "retry", !.pc = "ledger", !.amt = Floor(db.seq),
                            !.tok = db.tokenId, !.ret = db.isRetired]]
    /\ UNCHANGED <<db, chain, verifications, side>>

retryBlockchainRegistration_ledger(h) ==
    /\ hs[h].kind = "retry" /\ hs[h].pc = "ledger"
    /\ Service_registerProject(h)
    /\ UNCHANGED <<db, started, verifications, side>>

retryBlockchainRegistration_save(h) ==
    /\ hs[h].kind = "retry" /\ hs[h].pc = "save"
    /\ db' = [db EXCEPT !.tokenId = hs[h].tok, !.isRegistered = TRUE,
                        !.isRetired = FALSE, !.regError = FALSE]
    /\ hs' = [hs EXCEPT ![h] = Done("retry", "ok", FALSE)]
    /\ UNCHANGED <<chain, started, verifications, side>>

\* catch (blockchainError): the blockchain object the handler loaded, with
\* isRegistered false and the error
retryBlockchainRegistration_saveError(h) ==
    /\ hs[h].kind = "retry" /\ hs[h].pc = "saveError"
    /\ db' = [db EXCEPT !.tokenId = hs[h].tok, !.isRegistered = FALSE,
                        !.isRetired = hs[h].ret, !.regError = TRUE]
    /\ hs' = [hs EXCEPT ![h] = Done("retry", hs[h].out, FALSE)]
    /\ UNCHANGED <<chain, started, verifications, side>>

(* ----------- blockchainController.updateProjectStatus ------------------ *)

updateProjectStatus_find(h) ==
    /\ Free(h)
    /\ started' = started + 1
    /\ \E status \in StatusInputs :
         IF status = "" \/ ~isBlockchainRegistered(db)
         THEN hs' = [hs EXCEPT ![h] = Done("status", "refused", FALSE)]
         ELSE hs' = [hs EXCEPT ![h] =
                 [Idle EXCEPT !.kind = "status", !.pc = "ledger",
                              !.tok = db.tokenId, !.st = status]]
    /\ UNCHANGED <<db, chain, verifications, side>>

updateProjectStatus_ledger(h) ==
    /\ hs[h].kind = "status" /\ hs[h].pc = "ledger"
    /\ \E fault \in {"none", "lost", "down"} :
         IF fault # "down" /\ Contract_canUpdateStatus(chain, hs[h].tok, hs[h].st)
         THEN /\ chain' = Contract_updateProjectStatus(chain, hs[h].tok, hs[h].st)
              /\ IF fault = "none"
                 THEN hs' = [hs EXCEPT ![h].pc = "save"]
                 ELSE hs' = [hs EXCEPT ![h] = Done("status", "lost", FALSE)]
         ELSE /\ chain' = chain
              /\ hs' = [hs EXCEPT ![h] = Done("status",
                                   IF fault = "down" THEN "down" ELSE "failed", FALSE)]
    /\ UNCHANGED <<db, started, verifications, side>>

updateProjectStatus_save(h) ==
    /\ hs[h].kind = "status" /\ hs[h].pc = "save"
    /\ db' = [db EXCEPT !.status = hs[h].st]
    /\ hs' = [hs EXCEPT ![h] = Done("status", "ok", FALSE)]
    /\ UNCHANGED <<chain, started, verifications, side>>

(* ----------- blockchainController.syncProjectWithBlockchain ------------ *)

syncProjectWithBlockchain_find(h) ==
    /\ Free(h)
    /\ started' = started + 1
    /\ IF ~isBlockchainRegistered(db)
       THEN hs' = [hs EXCEPT ![h] = Done("sync", "refused", FALSE)]
       ELSE hs' = [hs EXCEPT ![h] = [Idle EXCEPT !.kind = "sync", !.pc = "ledger",
                                                  !.tok = db.tokenId]]
    /\ UNCHANGED <<db, chain, verifications, side>>

\* blockchainService.getProject: a view call, answered or not
syncProjectWithBlockchain_getProject(h) ==
    /\ hs[h].kind = "sync" /\ hs[h].pc = "ledger"
    /\ \E fault \in {"none", "down"} :
         IF fault = "none" /\ projectExists(chain, hs[h].tok)
         THEN hs' = [hs EXCEPT ![h].pc = "save",
                               ![h].st = chain.tokens[hs[h].tok + 1].status,
                               ![h].ret = chain.tokens[hs[h].tok + 1].isRetired]
         ELSE hs' = [hs EXCEPT ![h] = Done("sync",
                                  IF fault = "down" THEN "down" ELSE "failed", FALSE)]
    /\ UNCHANGED <<db, chain, started, verifications, side>>

syncProjectWithBlockchain_save(h) ==
    /\ hs[h].kind = "sync" /\ hs[h].pc = "save"
    /\ db' = [db EXCEPT !.status = hs[h].st, !.isRetired = hs[h].ret]
    /\ hs' = [hs EXCEPT ![h] = Done("sync", "ok", FALSE)]
    /\ UNCHANGED <<chain, started, verifications, side>>

(* ---------------------------- the system ------------------------------- *)

\* the response has been delivered and the slot is free again
Finish(h) ==
    /\ hs[h].pc = "done"
    /\ hs' = [hs EXCEPT ![h] = Idle]
    /\ UNCHANGED <<db, chain, started, verifications, side>>

\* the process dies and restarts: every request in flight is lost.  A
\* handler that was between the ledger's answer and its save is marked.
Crash ==
    /\ \E h \in Handlers : InFlight(h)
    /\ hs' = [h \in Handlers |->
                IF InFlight(h)
                THEN Done(hs[h].kind,
                          IF hs[h].pc = "save" THEN "crashedDispatched" ELSE "crashed",
                          hs[h].ov)
                ELSE hs[h]]
    /\ UNCHANGED <<db, chain, started, verifications, side>>

\* a submitted project, on a registry that is new or holds another project
Submitted ==
    /\ \E s \in {"Pending", "PENDING"}, o \in BOOLEAN :
         db = [status |-> s, seq |-> 2 * MaxCredits, credits |-> MaxCredits,
               hasOwner |-> o, isRegistered |-> FALSE, tokenId |-> NoToken,
               isRetired |-> FALSE, regError |-> FALSE]
    /\ \E n \in {0, 1} :
         chain = [counter |-> n, projectToToken |-> 0,
                  tokens |-> IF n = 0 THEN <<>> ELSE <<Token(FALSE, 1)>>]
    /\ hs = [h \in Handlers |-> Idle]
    /\ started = 0

SideOff ==
    registry = Off /\ erc20 = Off /\ evidence = Off /\ monitor = Off /\ session = Off

NoVerifications(counted) == [counted |-> counted, Approved |-> 0, Rejected |-> 0]

Init == Submitted /\ verifications = NoVerifications(FALSE) /\ SideOff

Next ==
    \/ \E h \in Handlers : registerProject_find(h)
    \/ \E h \in Handlers : registerProject_ledger(h)
    \/ \E h \in Handlers : registerProject_save(h)
    \/ \E h \in Handlers : retireCredits_find(h)
    \/ \E h \in Handlers : retireCredits_ledger(h)
    \/ \E h \in Handlers : retireCredits_save(h)
    \/ \E h \in Handlers : approveProject_find(h)
    \/ \E h \in Handlers : approveProject_verification(h)
    \/ \E h \in Handlers : approveProject_ledger(h)
    \/ \E h \in Handlers : approveProject_save(h)
    \/ \E h \in Handlers : approveProject_saveError(h)
    \/ \E h \in Handlers : rejectProject_find(h)
    \/ \E h \in Handlers : rejectProject_verification(h)
    \/ \E h \in Handlers : rejectProject_save(h)
    \/ \E h \in Handlers : retryBlockchainRegistration_find(h)
    \/ \E h \in Handlers : retryBlockchainRegistration_ledger(h)
    \/ \E h \in Handlers : retryBlockchainRegistration_save(h)
    \/ \E h \in Handlers : retryBlockchainRegistration_saveError(h)
    \/ \E h \in Handlers : updateProjectStatus_find(h)
    \/ \E h \in Handlers : updateProjectStatus_ledger(h)
    \/ \E h \in Handlers : updateProjectStatus_save(h)
    \/ \E h \in Handlers : syncProjectWithBlockchain_find(h)
    \/ \E h \in Handlers : syncProjectWithBlockchain_getProject(h)
    \/ \E h \in Handlers : syncProjectWithBlockchain_save(h)
    \/ \E h \in Handlers : Finish(h)
    \/ Crash

Spec == Init /\ [][Next]_vars

\* what an in-flight handler does next; the event loop runs every handler
\* that can continue
Continue(h) ==
    \/ registerProject_ledger(h) \/ registerProject_save(h)
    \/ retireCredits_ledger(h) \/ retireCredits_save(h)
    \/ approveProject_verification(h) \/ approveProject_ledger(h)
    \/ approveProject_save(h) \/ approveProject_saveError(h)
    \/ rejectProject_verification(h) \/ rejectProject_save(h)
    \/ retryBlockchainRegistration_ledger(h) \/ retryBlockchainRegistration_save(h)
    \/ retryBlockchainRegistration_saveError(h)
    \/ updateProjectStatus_ledger(h) \/ updateProjectStatus_save(h)
    \/ syncProjectWithBlockchain_getProject(h) \/ syncProjectWithBlockchain_save(h)
    \/ Finish(h)

FairSpec == Spec /\ \A h \in Handlers : WF_vars(Continue(h))

\* the same system with the Verification records counted
ApprovalInit ==
    Submitted /\ verifications = NoVerifications(TRUE) /\ SideOff

ApprovalSpec == ApprovalInit /\ [][Next]_vars

(* ======================= properties ==================================== *)

MineTokens == {t \in 0 .. (Len(chain.tokens) - 1) : chain.tokens[t + 1].mine}

\* the ledger registrations of the project that reached the chain
NumRegistrations == Cardinality(MineTokens)

SetMax(S) == CHOOSE x \in S : \A y \in S : y <= x

\* the amount claimed for the project: Carbon_Credits_Issued off chain, the
\* carbonCredits it was registered with on chain, whichever is larger
creditsClaimed ==
    SetMax({db.credits} \cup {chain.tokens[t + 1].registered : t \in MineTokens})

\* C1: at every point the credits retired for the project are at most the
\* credits claimed for it.
C1_Claim == creditsRetired <= creditsClaimed

RetireDone(h) == hs[h].kind = "retire" /\ hs[h].pc = "done"

\* C2: of two retire requests that were in flight together and whose amounts
\* together exceeded what was left of the claimed credits, at most one
\* succeeds (the other is refused), and retired stays within claimed.
C2_Claim ==
    \A g, h \in Handlers :
        (/\ g # h
         /\ RetireDone(g) /\ hs[g].ov
         /\ RetireDone(h) /\ hs[h].ov) =>
            /\ ~(hs[g].out = "ok" /\ hs[h].out = "ok")
            /\ creditsRetired <= creditsClaimed

\* C3: at most one registration of the project ever reaches the ledger.
C3_Claim == NumRegistrations <= 1

RegistrationKinds == {"register", "approve", "retry"}

\* the process died after a registration was mined and before it was recorded
CrashedAfterDispatch ==
    \E h \in Handlers :
        hs[h].kind \in RegistrationKinds /\ hs[h].out = "crashedDispatched"

\* the document records the outcome of the one registration on the ledger
Reconciled ==
    /\ NumRegistrations = 1
    /\ isBlockchainRegistered(db)
    /\ db.tokenId \in MineTokens

\* C4: when the process dies between the ledger's answer to a registration
\* and the save, the project is eventually recorded as registered, with no
\* second registration on the ledger.
C4_Claim == CrashedAfterDispatch ~> Reconciled

\* C5: a registration whose answer timed out is not recorded as failed: the
\* handler that catches the timeout leaves the project without a
\* registration error.
C5_Claim ==
    [][\A h \in Handlers :
          (/\ hs[h].out = "lost"
           /\ approveProject_saveError(h) \/ retryBlockchainRegistration_saveError(h))
              => ~db'.regError]_vars

\* every claimed credit of the registered project is retired
FullyRetired == NumRegistrations > 0 /\ creditsRetired >= creditsClaimed

\* C6: once the project's credits are fully retired, no later retirement
\* changes the retired amount.
C6_Claim == [][FullyRetired => creditsRetired' = creditsRetired]_vars

\* C7: a project becomes Rejected only from Pending, and a Rejected project
\* stays Rejected.
C7_Claim ==
    [][/\ (db'.status = "Rejected" /\ db.status # "Rejected") => isPending(db)
       /\ db.status = "Rejected" => db'.status = "Rejected"]_vars

LedgerKinds == {"register", "approve", "retry", "retire", "status"}

\* the handlers with a ledger operation accepted and not yet recorded
LedgerInFlight ==
    {h \in Handlers : hs[h].kind \in LedgerKinds
                      /\ hs[h].pc \in {"ledger", "save", "saveError"}}

\* C8: at most one ledger operation of the project is in flight.
C8_Claim == Cardinality(LedgerInFlight) <= 1

\* the document and the ledger tell the same story
Agree ==
    /\ isBlockchainRegistered(db) <=> NumRegistrations > 0
    /\ isBlockchainRegistered(db) =>
          /\ db.tokenId \in MineTokens
          /\ db.isRetired <=> chain.tokens[db.tokenId + 1].isRetired

\* C9: the document and the ledger agree again and again, with no request
\* from outside needed.
C9_Claim == []<>Agree

\* a retire request's call is mined
Retired(h) == retireCredits_ledger(h) /\ chain'.tokens # chain.tokens

\* C10 as stated: a successful retirement adds exactly the requested amount,
\* and the token is retired exactly when everything registered is retired.
C10_Claim ==
    [][\A h \in Handlers :
          Retired(h) =>
              /\ 2 * (creditsRetired' - creditsRetired) = hs[h].amt
              /\ chain'.tokens[hs[h].tok + 1].isRetired
                    <=> (chain'.tokens[hs[h].tok + 1].retired
                            = chain'.tokens[hs[h].tok + 1].registered)]_vars

\* C10 amended: a successful retirement adds the requested amount rounded
\* down, a positive whole number, and retires the token whether or not
\* credits are left on it: no further retirement of that token is accepted.
C10_Amended ==
    [][\A h \in Handlers :
          Retired(h) =>
              /\ creditsRetired' = creditsRetired + Floor(hs[h].amt)
              /\ Floor(hs[h].amt) > 0
              /\ chain'.tokens[hs[h].tok + 1].isRetired
              /\ chain'.tokens[hs[h].tok + 1].status = "Retired"
              /\ \A a \in RetireAmounts :
                    ~Contract_canRetire(chain', hs[h].tok, Floor(a), "offset")]_vars

\* a token of the project retired with credits left on it
C10_Witness ==
    \E t \in MineTokens :
        /\ chain.tokens[t + 1].isRetired
        /\ chain.tokens[t + 1].retired > 0
        /\ chain.tokens[t + 1].carbonCredits > 0

\* a retire request is accepted: its ledger call will be made
RetireAccepted(h) == retireCredits_find(h) /\ hs'[h].pc = "ledger"

\* the preconditions of a retirement of amount (in halves), on the true
\* state of the two ledgers
RetirePreconditions(amount, reason) ==
    /\ isBlockchainRegistered(db) /\ NumRegistrations > 0
    /\ amount > 0
    /\ amount <= 2 * (creditsClaimed - creditsRetired)
    /\ reason # ""

\* C11: a retirement's ledger call is made, and mined, only when the project
\* is registered, 0 < amount <= claimed - retired and the reason is given.
C11_Claim ==
    [][\A h \in Handlers :
          /\ RetireAccepted(h) => RetirePreconditions(hs'[h].amt, hs'[h].st)
          /\ Retired(h) => RetirePreconditions(hs[h].amt, hs[h].st)]_vars

\* a retirement's ledger call fails: the service throws and the handler's
\* catch answers 500
RetireFailed(h) == retireCredits_ledger(h) /\ hs'[h].out \in {"failed", "down"}

\* C12: when a retirement's ledger call fails, the failure is recorded on
\* the project's document and the retired credits are unchanged.
C12_Claim ==
    [][\A h \in Handlers :
          RetireFailed(h) => (db' # db /\ creditsRetired' = creditsRetired)]_vars

Approved(d) == d.status \in {"APPROVED", "Approved"}

\* the checks of retryBlockchainRegistration pass
RetryAccepted(d) == Approved(d) /\ ~d.isRegistered /\ d.hasOwner

C14_Claim ==
    [][\A h \in Handlers :
          /\ (retryBlockchainRegistration_find(h) /\ hs'[h].pc = "ledger")
                => db.regError
          /\ (retryBlockchainRegistration_ledger(h) /\ NumRegistrations > 0) =>
                /\ NumRegistrations' = NumRegistrations
                /\ hs'[h].pc = "save"
                /\ hs'[h].tok \in MineTokens]_vars

\* the document carries a ledger reference
LedgerRefPresent == db.tokenId # NoToken

\* C15: the document carries a ledger reference exactly when it is recorded
\* as registered, and never while it is pending or rejected.
C15_Claim ==
    /\ LedgerRefPresent <=> db.isRegistered
    /\ LedgerRefPresent => (~isPending(db) /\ db.status # "Rejected")

\* a handler's ledger call is sent to the chain and mined
Dispatched(h) ==
    /\ \/ registerProject_ledger(h) \/ approveProject_ledger(h)
       \/ retryBlockchainRegistration_ledger(h) \/ retireCredits_ledger(h)
       \/ updateProjectStatus_ledger(h)
    /\ chain' # chain

\* what the stored document shows of the operation a handler is sending: the
\* approval for an approve, the retry for a retry, the retirement for a
\* retire, the new status for a status update, a registration under way for
\* a register
IntentPersisted(h) ==
    CASE hs[h].kind = "approve" -> Approved(db)
      [] hs[h].kind = "retire" -> db.isRetired \/ db.status = "Retired"
      [] hs[h].kind = "status" -> db.status = hs[h].st
      [] OTHER -> db.isRegistered \/ db.regError

\* C16: when a ledger call is sent, the stored document already shows the
\* operation that is being carried out.
C16_Claim == [][\A h \in Handlers : Dispatched(h) => IntentPersisted(h)]_vars

\* an approve handler saves the approval
ApprovalSaved(h) == approveProject_save(h) \/ approveProject_saveError(h)

\* C17: an approval is saved only on a project that is pending.
C17_Claim == [][\A h \in Handlers : ApprovalSaved(h) => isPending(db)]_vars

\* how far the document is in the lifecycle, as a caller reading it sees it:
\* pending, approved, registered, then retired or rejected
LifecycleRank(d) ==
    IF d.status \in {"Rejected", "Retired"} \/ d.isRetired THEN 4
    ELSE IF isBlockchainRegistered(d) THEN 3
    ELSE IF Approved(d) THEN 2
    ELSE 1

\* C18: the lifecycle state a caller reads never goes back.
C18_Claim == [][LifecycleRank(db') >= LifecycleRank(db)]_vars

\* a handler of the given kind has saved its decision and answered
Persisted(h, kind) ==
    /\ hs[h].kind = kind /\ hs[h].pc = "done"
    /\ hs[h].out \in {"ok", "failed", "lost", "down"}

\* C19: of an approve and a reject that were decided on the same read of the
\* document, at most one is saved.
C19_Claim ==
    \A g, h \in Handlers :
        ~(/\ Persisted(g, "approve") /\ hs[g].ov
          /\ Persisted(h, "reject") /\ hs[h].ov)

\* a register request is accepted: its ledger call will be made
RegisterAccepted(h) == registerProject_find(h) /\ hs'[h].pc = "ledger"

\* C20: the register endpoint sends a registration only for a project that
\* has been verified or approved.
C20_Claim ==
    [][\A h \in Handlers :
          RegisterAccepted(h) => (Approved(db) \/ db.status = "Verified")]_vars

\* C25: once a registration of the project has been mined, the registry
\* reports the project as existing and refuses every further registration
\* of it, whichever token it was given.
C25_Claim ==
    NumRegistrations > 0 =>
        /\ projectExistsById(chain)
        /\ \A credits \in 1 .. MaxCredits : ~Contract_canRegister(chain, credits)

\* C22: a retire request made by somebody other than the project's owner is
\* refused: it is never accepted for a ledger call.
C22_Claim ==
    [][\A h \in Handlers :
          ~(retireCredits_from(h, "other") /\ hs'[h].pc = "ledger")]_vars

\* C27: an approval record exists only for a project whose stored status is
\* an approved one, and there is at most one approval record.
C27_Claim ==
    /\ verifications["Approved"] > 0 => Approved(db)
    /\ verifications["Approved"] <= 1

(* ============ CarbonCreditRegistry on its own: the statistics ========== *)

\* projects ever registered in the registry studied on its own
MaxProjects == 3

\* the main system is not running
MainOff ==
    /\ db = Off /\ chain = Off /\ hs = Off /\ started = 0
    /\ verifications = NoVerifications(FALSE)

\* registry.projects[t + 1] is projects[t]; retired is the sum of the amounts
\* of the CreditsRetired events
Registry_registerProject ==
    /\ Len(registry.projects) < MaxProjects
    /\ \E carbonSequestration \in 0 .. MaxCredits, carbonCredits \in 0 .. MaxCredits :
         /\ carbonCredits > 0
         /\ registry' = [registry EXCEPT !.projects =
                Append(@, [carbonSequestration |-> carbonSequestration,
                           carbonCredits |-> carbonCredits,
                           isRetired |-> FALSE])]
    /\ UNCHANGED <<main, erc20, evidence, monitor, session>>

Registry_retireCredits ==
    /\ \E tokenId \in 0 .. (Len(registry.projects) - 1), amount \in 0 .. MaxCredits :
         /\ ~registry.projects[tokenId + 1].isRetired
         /\ amount > 0
         /\ amount <= registry.projects[tokenId + 1].carbonCredits
         /\ registry' = [registry EXCEPT
                !.projects[tokenId + 1].carbonCredits = @ - amount,
                !.projects[tokenId + 1].isRetired = TRUE,
                !.retired = @ + amount]
    /\ UNCHANGED <<main, erc20, evidence, monitor, session>>

\* the subtraction of getTotalRetiredCredits underflows on some retired
\* project: the call reverts (checked arithmetic)
getTotalRetiredCredits_reverts(projects) ==
    \E i \in 1 .. Len(projects) :
        /\ projects[i].isRetired
        /\ projects[i].carbonSequestration < projects[i].carbonCredits

RECURSIVE getTotalRetiredCredits(_)
getTotalRetiredCredits(projects) ==
    IF projects = <<>> THEN 0
    ELSE (IF Head(projects).isRetired
          THEN Head(projects).carbonSequestration - Head(projects).carbonCredits
          ELSE 0) + getTotalRetiredCredits(Tail(projects))

RegistryInit ==
    /\ registry = [projects |-> <<>>, retired |-> 0]
    /\ erc20 = Off /\ evidence = Off /\ monitor = Off /\ session = Off
    /\ MainOff

RegistryNext == Registry_registerProject \/ Registry_retireCredits

RegistrySpec == RegistryInit /\ [][RegistryNext]_vars

\* C24: getTotalRetiredCredits never reverts and returns the sum of the
\* amounts of all successful retireCredits calls.
C24_Claim ==
    /\ ~getTotalRetiredCredits_reverts(registry.projects)
    /\ getTotalRetiredCredits(registry.projects) = registry.retired

(* ============ The ERC-20-integrated CarbonCreditRegistry ================ *)

\* NFT projects registered in the ERC-20 registry studied on its own
MaxTokens == 2

Erc20ProjectIds == {"p1", "p2"}

\* the outcome of the last transaction sent to the registry
Receipt(fn, ok) == [fn |-> fn, ok |-> ok]

Erc20_revert(fn) == erc20' = [erc20 EXCEPT !.last = Receipt(fn, FALSE)]

\* blueCarbon.mint(to, amount * 1e18), counted in whole credits; minted[t + 1]
\* is the sum of the ERC20CreditsMinted events of token t
BlueCarbon_mint(e, tokenId, to, amount) ==
    [e EXCEPT !.balanceOf[to] = @ + amount,
              !.minted[tokenId + 1] = @ + amount]

Erc20_onlyProjectOwner(e, tokenId, sender) ==
    /\ tokenId < Len(e.projects)
    /\ e.projects[tokenId + 1].projectOwner = sender

Erc20_registerProject ==
    /\ Len(erc20.projects) < MaxTokens
    /\ \E projectId \in Erc20ProjectIds, carbonCredits \in 0 .. MaxCredits,
          projectOwner \in Callers :
         IF erc20.projectToToken[projectId] = 0 /\ carbonCredits > 0
         THEN LET tokenId == Len(erc20.projects)
                  stored == [erc20 EXCEPT
                      !.projects = Append(@, [projectId |-> projectId,
                                              carbonCredits |-> carbonCredits,
                                              status |-> "VERIFIED",
                                              isRetired |-> FALSE,
                                              projectOwner |-> projectOwner]),
                      !.projectToToken[projectId] = tokenId,
                      !.registered = Append(@, carbonCredits),
                      !.minted = Append(@, 0),
                      !.last = Receipt("registerProject", TRUE)]
              IN  erc20' = BlueCarbon_mint(stored, tokenId, projectOwner, carbonCredits)
         ELSE Erc20_revert("registerProject")
    /\ UNCHANGED <<main, registry, evidence, monitor, session>>

Erc20_mintERC20Credits ==
    /\ \E sender \in Callers, tokenId \in 0 .. (MaxTokens - 1),
          amount \in 0 .. MaxCredits, to \in Callers :
         IF /\ Erc20_onlyProjectOwner(erc20, tokenId, sender)
            /\ amount > 0
            /\ ~erc20.projects[tokenId + 1].isRetired
            /\ amount <= erc20.projects[tokenId + 1].carbonCredits
         THEN erc20' = BlueCarbon_mint(
                  [erc20 EXCEPT !.projects[tokenId + 1].carbonCredits = @ - amount,
                                !.last = Receipt("mintERC20Credits", TRUE)],
                  tokenId, to, amount)
         ELSE Erc20_revert("mintERC20Credits")
    /\ UNCHANGED <<main, registry, evidence, monitor, session>>

\* one retireCredits transaction that is mined without reverting
Erc20_retired(sender, tokenId, amount, reason) ==
    /\ Erc20_onlyProjectOwner(erc20, tokenId, sender)
    /\ ~erc20.projects[tokenId + 1].isRetired
    /\ amount > 0 /\ amount <= erc20.projects[tokenId + 1].carbonCredits
    /\ reason # ""
    /\ erc20' = [erc20 EXCEPT !.projects[tokenId + 1].carbonCredits = @ - amount,
                              !.projects[tokenId + 1].isRetired = TRUE,
                              !.projects[tokenId + 1].status = "RETIRED",
                              !.last = Receipt("retireCredits", TRUE)]

Erc20_retireCredits ==
    /\ \E sender \in Callers, tokenId \in 0 .. (MaxTokens - 1),
          amount \in 0 .. MaxCredits, reason \in Reasons :
         \/ Erc20_retired(sender, tokenId, amount, reason)
         \/ /\ ~ENABLED Erc20_retired(sender, tokenId, amount, reason)
            /\ Erc20_revert("retireCredits")
    /\ UNCHANGED <<main, registry, evidence, monitor, session>>

\* sent by the contract's owner (onlyOwner)
Erc20_verifyAndMint ==
    /\ \E tokenId \in 0 .. (MaxTokens - 1) :
         IF /\ tokenId < Len(erc20.projects)
            /\ erc20.projects[tokenId + 1].status # "VERIFIED"
            /\ ~erc20.projects[tokenId + 1].isRetired
            /\ erc20.projects[tokenId + 1].carbonCredits > 0
         THEN erc20' = BlueCarbon_mint(
                  [erc20 EXCEPT !.projects[tokenId + 1].status = "VERIFIED",
                                !.projects[tokenId + 1].carbonCredits = 0,
                                !.last = Receipt("verifyAndMint", TRUE)],
                  tokenId, erc20.projects[tokenId + 1].projectOwner,
                  erc20.projects[tokenId + 1].carbonCredits)
         ELSE Erc20_revert("verifyAndMint")
    /\ UNCHANGED <<main, registry, evidence, monitor, session>>

Erc20Init ==
    /\ erc20 = [projects |-> <<>>,
                projectToToken |-> [p \in Erc20ProjectIds |-> 0],
                registered |-> <<>>,
                minted |-> <<>>,
                balanceOf |-> [a \in Callers |-> 0],
                last |-> Receipt("constructor", TRUE)]
    /\ registry = Off /\ evidence = Off /\ monitor = Off /\ session = Off
    /\ MainOff

Erc20Next ==
    \/ Erc20_registerProject
    \/ Erc20_mintERC20Credits
    \/ Erc20_retireCredits
    \/ Erc20_verifyAndMint

Erc20Spec == Erc20Init /\ [][Erc20Next]_vars

\* C21: a successful retirement of amount credits lowers the project owner's
\* BCARB balance by that amount.
C21_Claim ==
    [][\A sender \in Callers, tokenId \in 0 .. (MaxTokens - 1),
          amount \in 0 .. MaxCredits, reason \in Reasons :
          Erc20_retired(sender, tokenId, amount, reason)
              => erc20'.balanceOf[sender] = erc20.balanceOf[sender] - amount]_vars

\* C26: the BCARB minted on behalf of a project never exceeds the credits the
\* project was registered with.
C26_Claim ==
    \A t \in 1 .. Len(erc20.projects) : erc20.minted[t] <= erc20.registered[t]

(* ============ Evidence: submission and verification ===================== *)

\* Evidence documents ever submitted
MaxEvidence == 2

\* submitVerification requests ever received
MaxVerifyRequests == 3

\* the payloads an inspector may submit (transformPayload's result)
Payloads == {1, 2}

\* generateHash: a digest of the payload
generateHash(data) == (data * 5 + 3) % 7

\* req.body.evidenceHash of a verification request: 0 is a missing one; the
\* verifier's client computes it, nothing relates it to the stored hash
RequestHashes == 0 .. 2

EvidenceStatusInputs == {"", "APPROVED", "REJECTED"}

NoVerifier == 0

EvidenceIdle == [pc |-> "idle", evidenceId |-> 0, status |-> "", evidenceHash |-> 0]

EvidenceOthersOff ==
    /\ registry = Off /\ erc20 = Off /\ monitor = Off /\ session = Off

submitEvidence ==
    /\ Len(evidence.docs) < MaxEvidence
    /\ \E payload \in Payloads :
         evidence' = [evidence EXCEPT
             !.docs = Append(@, [payload |-> payload,
                                 evidenceHash |-> generateHash(payload),
                                 status |-> "PENDING",
                                 verifier |-> NoVerifier]),
             !.verifications = Append(@, 0),
             !.dispatched = Append(@, 0)]
    /\ UNCHANGED <<main, registry, erc20, monitor, session>>

\* validation, Evidence.findById and the PENDING check; a request answered
\* 400 or 404 goes no further
submitVerification_find(h) ==
    /\ evidence.hs[h].pc = "idle"
    /\ evidence.started < MaxVerifyRequests
    /\ \E evidenceId \in 0 .. MaxEvidence, status \in EvidenceStatusInputs,
          evidenceHash \in RequestHashes :
         evidence' = [evidence EXCEPT
             !.started = @ + 1,
             !.hs[h] = IF /\ evidenceId # 0 /\ status # "" /\ evidenceHash # 0
                          /\ evidenceId <= Len(evidence.docs)
                          /\ evidence.docs[evidenceId].status = "PENDING"
                       THEN [pc |-> "found", evidenceId |-> evidenceId,
                             status |-> status, evidenceHash |-> evidenceHash]
                       ELSE @]
    /\ UNCHANGED <<main, registry, erc20, monitor, session>>

\* new Verification({...}).save()
submitVerification_verification(h) ==
    /\ evidence.hs[h].pc = "found"
    /\ evidence' = [evidence EXCEPT
           !.verifications[evidence.hs[h].evidenceId] = @ + 1,
           !.hs[h].pc = "verified"]
    /\ UNCHANGED <<main, registry, erc20, monitor, session>>

\* evidence.save() that also stores the request's evidenceHash
submitVerification_save_rehash(h) ==
    /\ evidence.hs[h].pc = "verified"
    /\ evidence' = [evidence EXCEPT
           !.docs[evidence.hs[h].evidenceId].status = evidence.hs[h].status,
           !.docs[evidence.hs[h].evidenceId].verifier = h,
           !.docs[evidence.hs[h].evidenceId].evidenceHash = evidence.hs[h].evidenceHash,
           !.hs[h].pc = IF evidence.hs[h].status = "APPROVED" THEN "ledger" ELSE "done"]
    /\ UNCHANGED <<main, registry, erc20, monitor, session>>

\* evidence.save(): the modified paths status, verifiedAt and verifier are
\* written, whatever the document has become since it was read
submitVerification_save(h) ==
    /\ evidence.hs[h].pc = "verified"
    /\ evidence' = [evidence EXCEPT
           !.docs[evidence.hs[h].evidenceId].status = evidence.hs[h].status,
           !.docs[evidence.hs[h].evidenceId].verifier = h,
           !.hs[h].pc = IF evidence.hs[h].status = "APPROVED" THEN "ledger" ELSE "done"]
    /\ UNCHANGED <<main, registry, erc20, monitor, session>>

\* blockchainService.registerProject(minimalProjectData) and the second
\* verification.save(), whether the registration succeeded or threw
submitVerification_ledger(h) ==
    /\ evidence.hs[h].pc = "ledger"
    /\ evidence' = [evidence EXCEPT
           !.dispatched[evidence.hs[h].evidenceId] = @ + 1,
           !.hs[h].pc = "done"]
    /\ UNCHANGED <<main, registry, erc20, monitor, session>>

\* the response
submitVerification_respond(h) ==
    /\ evidence.hs[h].pc = "done"
    /\ evidence' = [evidence EXCEPT !.hs[h] = EvidenceIdle]
    /\ UNCHANGED <<main, registry, erc20, monitor, session>>

EvidenceInit ==
    /\ evidence = [docs |-> <<>>, verifications |-> <<>>, dispatched |-> <<>>,
                   hs |-> [h \in Handlers |-> EvidenceIdle], started |-> 0]
    /\ EvidenceOthersOff
    /\ MainOff

EvidenceNext ==
    \/ submitEvidence
    \/ \E h \in Handlers :
         \/ submitVerification_find(h)
         \/ submitVerification_verification(h)
         \/ submitVerification_save(h)
         \/ submitVerification_ledger(h)
         \/ submitVerification_respond(h)

EvidenceSpec == EvidenceInit /\ [][EvidenceNext]_vars

\* C23: once an Evidence record is created no operation changes any of its
\* stored fields.
C23_Claim ==
    [][\A i \in 1 .. Len(evidence.docs) : evidence'.docs[i] = evidence.docs[i]]_vars

\* C23, amended: no operation changes the submitted content of an Evidence
\* record or its evidenceHash, which is the hash computed at submission;
\* verification changes only status, verifiedAt and verifier.
C23_Amended ==
    [][\A i \in 1 .. Len(evidence.docs) :
          /\ evidence'.docs[i].payload = evidence.docs[i].payload
          /\ evidence'.docs[i].evidenceHash = evidence.docs[i].evidenceHash
          /\ evidence.docs[i].evidenceHash = generateHash(evidence.docs[i].payload)]_vars

\* a verified Evidence record whose verification request carried another hash
C23_Witness ==
    \E h \in Handlers :
        /\ evidence.hs[h].pc = "done"
        /\ evidence.docs[evidence.hs[h].evidenceId].status # "PENDING"
        /\ evidence.hs[h].evidenceHash
               # generateHash(evidence.docs[evidence.hs[h].evidenceId].payload)

\* C28: for every Evidence record at most one Verification record is created
\* and at most one ledger registration is dispatched.
C28_Claim ==
    \A i \in 1 .. Len(evidence.docs) :
        /\ evidence.verifications[i] <= 1
        /\ evidence.dispatched[i] <= 1

(* ============ TransactionMonitor, one transaction hash ================== *)

\* startMonitoring calls ever made for the hash
MaxStarts == 2

\* polls (monitorTransaction runs) ever made for the hash
MaxPolls == 4

\* "Standard confirmation threshold"
ConfirmationThreshold == 12

\* what getConfirmations may return for a mined transaction (0 when it fails)
Confirmations == {0, 1, ConfirmationThreshold - 1, ConfirmationThreshold}

\* what the provider answers to one poll: no transaction, a transaction not
\* yet in a block, a mined one without or with a receipt, or an exception
PollResults ==
    {[kind |-> k, ok |-> TRUE, confirmations |-> 0] :
        k \in {"null", "pending", "noreceipt", "throw"}}
    \cup [kind : {"receipt"}, ok : BOOLEAN, confirmations : Confirmations]

NoEntry == [status |-> "none", update |-> "none", confirmations |-> 0]

\* updateTransactionStatus(hash, status, data) on the monitor m: update is
\* the status argument, assigned overrides it when data carries a status
updateTransactionStatus(m, status, assigned, confirmations) ==
    IF m.entry = NoEntry THEN m
    ELSE [m EXCEPT
            !.entry = [status |-> assigned, update |-> status,
                       confirmations |-> confirmations],
            !.callbacks = @ + 1,
            !.deletions = IF status \in {"finalized", "failed", "error"}
                          THEN @ + 1 ELSE @]

startMonitoring ==
    /\ monitor.starts < MaxStarts
    /\ monitor' = [monitor EXCEPT
           !.entry = [status |-> "pending", update |-> "pending", confirmations |-> 0],
           !.starts = @ + 1,
           !.chains = @ + 1]
    /\ UNCHANGED <<main, registry, erc20, evidence, session>>

\* one run of monitorTransaction by one of the chains of polls
monitorTransaction ==
    /\ monitor.chains > 0
    /\ monitor.polls < MaxPolls
    /\ \E r \in PollResults :
         LET polled == [monitor EXCEPT !.polls = @ + 1]
             ended == [polled EXCEPT !.chains = @ - 1]
             outcome == IF r.ok THEN "success" ELSE "failed"
         IN  monitor' =
               CASE r.kind = "null" ->
                      updateTransactionStatus(ended, "not_found", "not_found",
                                              monitor.entry.confirmations)
                 [] r.kind = "pending" -> polled
                 [] r.kind = "noreceipt" -> ended
                 [] r.kind = "throw" ->
                      updateTransactionStatus(ended, "error", "error",
                                              monitor.entry.confirmations)
                 [] r.kind = "receipt" /\ r.confirmations < ConfirmationThreshold ->
                      updateTransactionStatus(polled, "confirmed", outcome,
                                              r.confirmations)
                 [] r.kind = "receipt" /\ r.confirmations >= ConfirmationThreshold ->
                      updateTransactionStatus(
                          updateTransactionStatus(ended, "confirmed", outcome,
                                                  r.confirmations),
                          "finalized", outcome, r.confirmations)
    /\ UNCHANGED <<main, registry, erc20, evidence, session>>

stopMonitoring ==
    /\ monitor.entry # NoEntry
    /\ monitor' = [monitor EXCEPT !.entry = NoEntry]
    /\ UNCHANGED <<main, registry, erc20, evidence, session>>

\* the timer set by updateTransactionStatus one minute earlier
Monitor_delete ==
    /\ monitor.deletions > 0
    /\ monitor' = [monitor EXCEPT !.entry = NoEntry, !.deletions = @ - 1]
    /\ UNCHANGED <<main, registry, erc20, evidence, session>>

MonitorInit ==
    /\ monitor = [entry |-> NoEntry, starts |-> 0, chains |-> 0, polls |-> 0,
                  callbacks |-> 0, deletions |-> 0]
    /\ registry = Off /\ erc20 = Off /\ evidence = Off /\ session = Off
    /\ MainOff

MonitorNext ==
    \/ startMonitoring
    \/ monitorTransaction
    \/ stopMonitoring
    \/ Monitor_delete

MonitorSpec == MonitorInit /\ [][MonitorNext]_vars

TerminalStatuses == {"finalized", "error", "not_found"}

\* C29: once the status of a monitored transaction is 'finalized', 'error' or
\* 'not_found' nothing changes it or invokes the callback again, and
\* 'finalized' is set only with at least 12 confirmations seen.
C29_Claim ==
    /\ [][monitor.entry.status \in TerminalStatuses
            => /\ monitor'.entry.status \in {monitor.entry.status, "none"}
               /\ monitor'.callbacks = monitor.callbacks]_vars
    /\ [](monitor.entry.update = "finalized"
            => monitor.entry.confirmations >= ConfirmationThreshold)

(* ============ ProgressController: registration sessions ================= *)

\* registration sessions ever started
MaxSessions == 2

\* the ids of the steps, in the order of registrationData.steps
StepIds == <<"validation", "ipfs_upload", "blockchain_prep", "registration",
             "token_mint", "confirmation">>

NumSteps == Len(StepIds)

\* Math.round((completedSteps / steps.length) * 100)
Progress(steps) ==
    LET completedSteps == Cardinality({k \in 1 .. NumSteps : steps[k] = "completed"})
    IN  (2 * 100 * completedSteps + NumSteps) \div (2 * NumSteps)

\* updateProgress(sessionId, stepId, status) on the registration reg; a
\* stepId that names no step changes no step
updateProgress(reg, stepId, status) ==
    LET steps == [k \in 1 .. NumSteps |->
                     IF StepIds[k] = stepId THEN status ELSE reg.steps[k]]
    IN  [reg EXCEPT !.steps = steps, !.progress = Progress(steps)]

\* the catch block of processRegistration
processRegistration_catch(reg) ==
    updateProgress([reg EXCEPT !.status = "failed", !.at = 0], "error", "failed")

\* validateProject on the document read by startProjectRegistration
validateProject(project) ==
    /\ project.co2Estimate > 0
    /\ project.evidenceHash

\* the awaited call of step k returned: the step is completed and the next
\* one, if any, is started; at = NumSteps + 1 awaits updateProjectInDatabase
Step_resolved(reg, k) ==
    LET completed == updateProgress(reg, StepIds[k], "completed")
    IN  IF k < NumSteps
        THEN [updateProgress(completed, StepIds[k + 1], "in_progress") EXCEPT !.at = k + 1]
        ELSE [completed EXCEPT !.at = NumSteps + 1]

\* processRegistration of session i is at the await of step k
Awaiting(i, k) ==
    /\ i \in 1 .. Len(session.regs)
    /\ session.regs[i].at = k

\* the continuation of processRegistration after the await of step k, whose
\* call returns or throws
Step(i, k) ==
    /\ \E returned \in BOOLEAN :
         session' = [session EXCEPT !.regs[i] =
             IF returned THEN Step_resolved(@, k) ELSE processRegistration_catch(@)]
    /\ UNCHANGED <<main, registry, erc20, evidence, monitor>>

startProjectRegistration ==
    /\ Len(session.regs) < MaxSessions
    /\ ~session.project.isRegistered
    /\ session' = [session EXCEPT !.regs = Append(@,
           updateProgress([status |-> "initializing", progress |-> 0,
                           steps |-> [k \in 1 .. NumSteps |-> "pending"],
                           at |-> 1],
                          "validation", "in_progress"))]
    /\ UNCHANGED <<main, registry, erc20, evidence, monitor>>

processRegistration_validation(i) ==
    /\ Awaiting(i, 1)
    /\ session' = [session EXCEPT !.regs[i] =
           IF validateProject(session.project)
           THEN Step_resolved(@, 1) ELSE processRegistration_catch(@)]
    /\ UNCHANGED <<main, registry, erc20, evidence, monitor>>

processRegistration_ipfs_upload(i) ==
    /\ Awaiting(i, 2)
    /\ Step(i, 2)

processRegistration_blockchain_prep(i) ==
    /\ Awaiting(i, 3)
    /\ Step(i, 3)

processRegistration_registration(i) ==
    /\ Awaiting(i, 4)
    /\ Step(i, 4)

processRegistration_token_mint(i) ==
    /\ Awaiting(i, 5)
    /\ Step(i, 5)

processRegistration_confirmation(i) ==
    /\ Awaiting(i, 6)
    /\ Step(i, 6)

\* the session is marked completed whether or not project.save() succeeded
processRegistration_updateProjectInDatabase_unsaved(i) ==
    /\ Awaiting(i, NumSteps + 1)
    /\ \E saved \in BOOLEAN :
         session' = [session EXCEPT
             !.project.isRegistered = IF saved THEN TRUE ELSE @,
             !.regs[i] = [@ EXCEPT !.status = "completed", !.progress = 100, !.at = 0]]
    /\ UNCHANGED <<main, registry, erc20, evidence, monitor>>

\* await updateProjectInDatabase(project, finalResult) and what follows it
processRegistration_updateProjectInDatabase(i) ==
    /\ Awaiting(i, NumSteps + 1)
    /\ \E saved \in BOOLEAN :
         session' = [session EXCEPT
             !.project.isRegistered = IF saved THEN TRUE ELSE @,
             !.regs[i] = IF saved
                         THEN [@ EXCEPT !.status = "completed", !.progress = 100,
                                        !.at = 0]
                         ELSE processRegistration_catch(@)]
    /\ UNCHANGED <<main, registry, erc20, evidence, monitor>>

SessionInit ==
    /\ \E co2Estimate \in {0, 1}, evidenceHash \in BOOLEAN :
         session = [regs |-> <<>>,
                    project |-> [isRegistered |-> FALSE,
                                 co2Estimate |-> co2Estimate,
                                 evidenceHash |-> evidenceHash]]
    /\ registry = Off /\ erc20 = Off /\ evidence = Off /\ monitor = Off
    /\ MainOff

SessionNext ==
    \/ startProjectRegistration
    \/ \E i \in 1 .. MaxSessions :
         \/ processRegistration_validation(i)
         \/ processRegistration_ipfs_upload(i)
         \/ processRegistration_blockchain_prep(i)
         \/ processRegistration_registration(i)
         \/ processRegistration_token_mint(i)
         \/ processRegistration_confirmation(i)
         \/ processRegistration_updateProjectInDatabase(i)

SessionSpec == SessionInit /\ [][SessionNext]_vars

AllCompleted(reg) == \A k \in 1 .. NumSteps : reg.steps[k] = "completed"

\* C30: in every registration session a step has left 'pending' only if all
\* earlier steps are completed; the session is 'completed' with progress 100
\* only if all six steps are completed and the project was saved as
\* registered; a session in which a step failed is 'failed', stays as it is,
\* and its later steps are 'pending'.
C30_Claim ==
    /\ [](\A i \in 1 .. Len(session.regs) :
            LET reg == session.regs[i]
            IN  /\ \A k \in 1 .. NumSteps :
                      reg.steps[k] # "pending"
                          => \A j \in 1 .. (k - 1) : reg.steps[j] = "completed"
                /\ reg.status = "completed"
                      => /\ reg.progress = 100
                         /\ AllCompleted(reg)
                         /\ session.project.isRegistered
                /\ \A k \in 1 .. NumSteps :
                      reg.steps[k] = "in_progress" /\ reg.at = 0
                          => /\ reg.status = "failed"
                             /\ \A j \in (k + 1) .. NumSteps : reg.steps[j] = "pending")
    /\ [][\A i \in 1 .. Len(session.regs) :
             session.regs[i].status = "failed"
                 => session'.regs[i] = session.regs[i]]_vars

\* one session completed and another one failed at a step after the first
C30_Witness ==
    /\ \E i \in 1 .. Len(session.regs) :
         /\ session.regs[i].status = "completed"
         /\ session.regs[i].progress = 100
    /\ \E i \in 1 .. Len(session.regs), k \in 2 .. NumSteps :
         /\ session.regs[i].status = "failed"
         /\ session.regs[i].steps[k] = "in_progress"

====
